---- MODULE Spec2Model ----
(***************************************************************************)
(* Model of the LightRAG EUDI service: the Pinecone vector-storage adapter *)
(* (src/pinecone_storage.py: constructor, upsert, query, delete) and the   *)
(* engine singleton, the ingestion task and the two entry points           *)
(* (src/main.py).                                                          *)
(***************************************************************************)
EXTENDS Integers, Sequences, FiniteSets, TLC

(***************************************************************************)
(* Text.  A Python str is modelled as its run-length encoding: a sequence  *)
(* of <<character, count>> runs with count >= 1 and no two adjacent runs   *)
(* of the same character, so that equal strings have equal encodings and a *)
(* 30000-character payload is a short value.                               *)
(***************************************************************************)

RECURSIVE StrLen(_)
StrLen(s) == IF s = <<>> THEN 0 ELSE s[1][2] + StrLen(Tail(s))

\* a + b
StrCat(a, b) ==
    IF a = <<>> THEN b
    ELSE IF b = <<>> THEN a
    ELSE IF a[Len(a)][1] = b[1][1]
         THEN SubSeq(a, 1, Len(a) - 1)
                \o << <<b[1][1], a[Len(a)][2] + b[1][2]>> >>
                \o Tail(b)
         ELSE a \o b

\* s[:n], n >= 0
RECURSIVE StrTake(_, _)
StrTake(s, n) ==
    IF n <= 0 \/ s = <<>> THEN <<>>
    ELSE IF s[1][2] >= n THEN << <<s[1][1], n>> >>
    ELSE <<s[1]>> \o StrTake(Tail(s), n - s[1][2])

\* s[n:], n >= 0
RECURSIVE StrDrop(_, _)
StrDrop(s, n) ==
    IF s = <<>> THEN <<>>
    ELSE IF n <= 0 THEN s
    ELSE IF s[1][2] > n THEN << <<s[1][1], s[1][2] - n>> >> \o Tail(s)
    ELSE StrDrop(Tail(s), n - s[1][2])

StrStartsWith(s, p) == StrTake(s, StrLen(p)) = p

StrEndsWith(s, p) ==
    /\ StrLen(s) >= StrLen(p)
    /\ StrDrop(s, StrLen(s) - StrLen(p)) = p

\* The str made of n copies of character c.
Rep(c, n) == IF n <= 0 THEN <<>> ELSE << <<c, n>> >>

(***************************************************************************)
(* Python dicts as functions; d.get(k, default) and d without key k.       *)
(***************************************************************************)

Get(d, k, default) == IF k \in DOMAIN d THEN d[k] ELSE default

Without(d, k) == [x \in (DOMAIN d) \ {k} |-> d[x]]

With(d, k, v) == [x \in (DOMAIN d) \cup {k} |-> IF x = k THEN v ELSE d[x]]

EmptyDict == [x \in {} |-> 0]

(***************************************************************************)
(* Program constants.                                                      *)
(***************************************************************************)

\* self.max_batch_size = 100
max_batch_size == 100

\* the payload cap of upsert: len(content) > 30000, content[:30000]
ContentCap == 30000

\* "...[truncated]"
TruncationMarker ==
    << <<".", 3>>, <<"[", 1>>, <<"t", 1>>, <<"r", 1>>, <<"u", 1>>, <<"n", 1>>,
       <<"c", 1>>, <<"a", 1>>, <<"t", 1>>, <<"e", 1>>, <<"d", 1>>, <<"]", 1>> >>

\* the metadata key that carries the payload: "__content__"
ContentKey == "__content__"

NAMESPACE_ENTITIES == "liquid_entities"
NAMESPACE_RELATIONS == "liquid_relations"
NAMESPACE_CHUNKS == "liquid_chunks"

Namespaces == {NAMESPACE_ENTITIES, NAMESPACE_RELATIONS, NAMESPACE_CHUNKS}

\* kwargs.get("namespace", "default")
DefaultNamespace == "default"

\* the namespaces of the remote index that a facade can name
Partitions == Namespaces \cup {DefaultNamespace}

(***************************************************************************)
(* State.                                                                  *)
(***************************************************************************)
VARIABLES
    numpyStrict,  \* the installed numpy raises on the truth value of an empty array
    store,        \* the remote index: namespace -> (id -> [values, metadata])
    upc,          \* where the upsert call stands
    uns,          \* self.namespace of the facade running upsert
    udata,        \* its argument: the mapping, as the sequence of its items
    ui,           \* index of the next item the for loop takes
    inflight,     \* the batch handed to the executor
    uerr,         \* the exception upsert raised to its caller ("none" if none)
    calls,        \* the remote upsert calls of this upsert call, in order
    origin,       \* namespace -> (id -> the caller's record last committed)
    qpc,          \* "none" before any query, then "returned" or "raised"
    qns,          \* self.namespace of the facade that ran the last query
    qremote,      \* what the remote search of the last query did
    qout,         \* what the last query returned
    LIGHTRAG_AVAILABLE, \* whether the lightrag import succeeded
    environ,      \* the names of the environment variables set to a non-empty value
    rag_instance, \* _rag_instance: 0 for None, else the engine handle
    handles,      \* the number of engines constructed so far
    ops,          \* the number of operations started so far
    pc,           \* per thread: where it stands
    op,           \* per thread: the operation it runs
    text,         \* per thread: the text argument
    metadata,     \* per thread: the metadata (process_ingest) or mode (query)
    built,        \* per thread: the engine LightRAG(...) returned to it
    rag,          \* per thread: what get_rag_instance returned to it
    path,         \* per thread: the return statement get_rag_instance left by
    late,         \* per thread: its test of line 90 found _rag_instance set
    retried,      \* per thread: a construction had failed before its test of line 90
    failed,       \* a construction attempt has failed
    inserted,     \* per thread: the calls of rag.insert of its operation
    outcome,      \* per thread: how its operation ended
    acks,         \* the responses of ingest_endpoint, in order
    tasks,        \* the background tasks added by ingest_endpoint, in order
    task,         \* per thread: the background task it runs (0 if none)
    blank,        \* the names of the environment variables set to ""
    facades,      \* the PineconeVectorDBStorage objects constructed, in order
    opened,       \* the Pinecone clients opened by the constructor, in order
    fpc,          \* how the last call of the constructor ended
    dpc,          \* where the delete call stands
    dns,          \* self.namespace of the facade running delete
    dids,         \* its argument
    dremote,      \* what the remote deletion of the last delete did
    qcall         \* the remote search of the last query: its arguments and its answer

storeVars == <<numpyStrict, store, upc, uns, udata, ui, inflight, uerr, calls,
               origin, qpc, qns, qremote, qout>>

ragVars == <<LIGHTRAG_AVAILABLE, environ, rag_instance, handles, ops, pc, op, text,
             metadata, built, rag, path, late, retried, failed, inserted, outcome>>

apiVars == <<acks, tasks, task>>

facadeVars == <<blank, facades, opened, fpc>>

delVars == <<dpc, dns, dids, dremote>>

\* the variables main.py's engine code and the upsert code leave alone
otherVars == <<apiVars, facadeVars, delVars, qcall>>

vars == <<storeVars, ragVars, otherVars>>

(***************************************************************************)
(* Embeddings: a Python list or a numpy array of numbers.                  *)
(***************************************************************************)

PyList(vals) == [kind |-> "list", vals |-> vals]

NdArray(vals) == [kind |-> "ndarray", vals |-> vals]

\* `not vector_data` of upsert: "skip" when the value is falsy, "keep" when
\* it is truthy, "raise" when bool() of it raises ValueError.
EmptinessTest(v, strict) ==
    IF v.kind = "list"
    THEN IF Len(v.vals) = 0 THEN "skip" ELSE "keep"
    ELSE IF Len(v.vals) = 0 THEN (IF strict THEN "raise" ELSE "skip")
    ELSE IF Len(v.vals) = 1 THEN (IF v.vals[1] = 0 THEN "skip" ELSE "keep")
    ELSE "raise"

\* vector_data if isinstance(vector_data, list) else vector_data.tolist()
ToList(v) == v.vals

\* str(id_key); the keys of the mapping are str (Dict[str, ...]), and str()
\* of a str is that str.
PyStr(k) == k

(***************************************************************************)
(* Content-metadata codec.                                                 *)
(***************************************************************************)

\* Truncate with the cap tested by >= : a payload of exactly the cap is cut too
TruncateFromCap(content) ==
    IF StrLen(content) >= ContentCap
    THEN StrCat(StrTake(content, ContentCap), TruncationMarker)
    ELSE content

\* if len(content) > 30000: content = content[:30000] + "...[truncated]"
Truncate(content) ==
    IF StrLen(content) > ContentCap
    THEN StrCat(StrTake(content, ContentCap), TruncationMarker)
    ELSE content

\* the metadata upsert sends for a record
Encode(doc) ==
    LET meta == Get(doc, "meta", EmptyDict)
        content == Get(doc, "content", <<>>)
    IN  With(meta, ContentKey, Truncate(content))

\* the result record query builds from one match
Decode(match) ==
    LET stored == Get(match, "metadata", EmptyDict)
    IN  [id |-> match.id,
         vector |-> Get(match, "values", <<>>),
         score |-> Get(match, "score", 0),
         content |-> Get(stored, ContentKey, <<>>),
         meta |-> Without(stored, ContentKey)]

(***************************************************************************)
(* The remote index (the service behind self.index).                       *)
(***************************************************************************)

\* index.upsert(vectors=vectors, namespace=ns): every vector is written under
\* its id in that namespace, a later one of the same id over an earlier one.
IndexUpsert(st, ns, vectors) ==
    LET ids == {vectors[j].id : j \in 1..Len(vectors)}
        last(id) == CHOOSE j \in 1..Len(vectors) :
                        /\ vectors[j].id = id
                        /\ \A k \in (j + 1)..Len(vectors) : vectors[k].id # id
    IN  [st EXCEPT ![ns] =
            [id \in (DOMAIN st[ns]) \cup ids |->
                IF id \in ids
                THEN [values |-> vectors[last(id)].values,
                      metadata |-> vectors[last(id)].metadata]
                ELSE st[ns][id]]]

(***************************************************************************)
(* upsert.                                                                 *)
(***************************************************************************)

\* the dict upsert appends to vectors for one item of the mapping
VectorEntry(id_key, doc) ==
    [id |-> PyStr(id_key),
     values |-> ToList(Get(doc, "vector", PyList(<<>>))),
     metadata |-> Encode(doc)]

\* One pass of the body of the for loop, on item p. st is the loop so far:
\* "running", or stopped at a full batch to send ("batch") or at an
\* exception ("raise"); a stopped loop takes no further item.
LoopBody(data, p, st, strict) ==
    IF st.at # "running" THEN st
    ELSE LET id_key == data[p][1]
             doc == data[p][2]
             test == EmptinessTest(Get(doc, "vector", PyList(<<>>)), strict)
         IN  IF test = "raise"
             THEN [at |-> "raise", i |-> p, vectors |-> st.vectors]
             ELSE IF test = "skip"
             THEN [at |-> "running", i |-> p + 1, vectors |-> st.vectors]
             ELSE LET grown == Append(st.vectors, VectorEntry(id_key, doc))
                  IN  IF Len(grown) >= max_batch_size
                      THEN [at |-> "batch", i |-> p + 1, vectors |-> grown]
                      ELSE [at |-> "running", i |-> p + 1, vectors |-> grown]

\* The passes on items lo..hi in order (split in halves, so that the
\* evaluation nests to the logarithm of the length only).
RECURSIVE LoopOver(_, _, _, _, _)
LoopOver(data, lo, hi, st, strict) ==
    IF lo > hi THEN st
    ELSE IF lo = hi THEN LoopBody(data, lo, st, strict)
    ELSE LET mid == (lo + hi) \div 2
             left == LoopOver(data, lo, mid, st, strict)
         IN  IF left.at # "running" THEN left
             ELSE LoopOver(data, mid + 1, hi, left, strict)

\* The for loop of upsert from item i on, with the batch gathered so far,
\* up to the point where the coroutine next stops: a full batch to send
\* ("batch"), the end of the mapping ("end"), or an exception ("raise").
UpsertLoop(data, i, vectors, strict) ==
    LET st == LoopOver(data, i, Len(data),
                       [at |-> "running", i |-> i, vectors |-> vectors], strict)
    IN  IF st.at = "running" THEN [st EXCEPT !.at = "end"] ELSE st

\* UpsertRun without the reset of line 123: the batch just sent is kept
UpsertRunKeeping(data, i, strict) ==
    LET r == UpsertLoop(data, i, inflight, strict)
    IN  IF r.at = "batch" THEN [pc |-> "await122", i |-> r.i, vectors |-> r.vectors]
        ELSE IF r.at = "raise" THEN [pc |-> "raised", i |-> r.i, vectors |-> <<>>]
        ELSE IF r.vectors # <<>>
        THEN [pc |-> "await127", i |-> r.i, vectors |-> r.vectors]
        ELSE [pc |-> "done", i |-> r.i, vectors |-> <<>>]

\* upsert from item i on, up to its next await, return or raise.
UpsertRun(data, i, strict) ==
    LET r == UpsertLoop(data, i, <<>>, strict)
    IN  IF r.at = "batch" THEN [pc |-> "await122", i |-> r.i, vectors |-> r.vectors]
        ELSE IF r.at = "raise" THEN [pc |-> "raised", i |-> r.i, vectors |-> <<>>]
        ELSE IF r.vectors # <<>>
        THEN [pc |-> "await127", i |-> r.i, vectors |-> r.vectors]
        ELSE [pc |-> "done", i |-> r.i, vectors |-> <<>>]

IdsOf(vectors) == [j \in 1..Len(vectors) |-> vectors[j].id]

Awaiting == upc \in {"await122", "await127"}

\* the state of the upsert call after running to r
UpsertGoto(r, ns, log) ==
    /\ upc' = r.pc
    /\ ui' = r.i
    /\ inflight' = r.vectors
    /\ uerr' = IF r.pc = "raised" THEN "ValueError" ELSE "none"
    /\ calls' = IF r.pc \in {"await122", "await127"}
                THEN Append(log, [namespace |-> ns, ids |-> IdsOf(r.vectors),
                                  status |-> "pending"])
                ELSE log

\* upsert(data) on the facade of namespace ns, up to its first await
UpsertEnter(ns, data) ==
    /\ uns' = ns
    /\ udata' = data
    /\ UpsertGoto(UpsertRun(data, 1, numpyStrict), ns, <<>>)
    /\ UNCHANGED <<ragVars, otherVars>>
    /\ UNCHANGED <<numpyStrict, store, origin, qpc, qns, qremote, qout>>

\* a caller invokes upsert(data) on the facade of namespace ns, once
UpsertCall(ns, data) ==
    /\ upc = "idle"
    /\ UpsertEnter(ns, data)

DocOf(data, id) ==
    data[CHOOSE j \in 1..Len(data) : PyStr(data[j][1]) = id][2]

Settle(log, status) == [log EXCEPT ![Len(log)].status = status]

\* the executor's index.upsert returns: _upsert_batch returns and upsert
\* goes on (after line 122) or returns (after line 127)
BatchOk ==
    /\ Awaiting
    /\ store' = IndexUpsert(store, uns, inflight)
    /\ origin' = [origin EXCEPT ![uns] =
         [id \in (DOMAIN origin[uns]) \cup {inflight[j].id : j \in 1..Len(inflight)} |->
            IF \E j \in 1..Len(inflight) : inflight[j].id = id
            THEN DocOf(udata, id) ELSE origin[uns][id]]]
    /\ IF upc = "await122"
       THEN UpsertGoto(UpsertRun(udata, ui, numpyStrict), uns, Settle(calls, "ok"))
       ELSE UpsertGoto([pc |-> "done", i |-> ui, vectors |-> <<>>], uns,
                       Settle(calls, "ok"))
    /\ UNCHANGED <<ragVars, otherVars>>
    /\ UNCHANGED <<numpyStrict, uns, udata, qpc, qns, qremote, qout>>

\* BatchFail with the exception swallowed by _upsert_batch: upsert goes on
BatchFailSwallowed ==
    /\ Awaiting
    /\ IF upc = "await122"
       THEN UpsertGoto(UpsertRun(udata, ui, numpyStrict), uns, Settle(calls, "failed"))
       ELSE UpsertGoto([pc |-> "done", i |-> ui, vectors |-> <<>>], uns,
                       Settle(calls, "failed"))
    /\ UNCHANGED <<ragVars, otherVars>>
    /\ UNCHANGED <<numpyStrict, store, uns, udata, origin, qpc, qns, qremote, qout>>

\* the executor's index.upsert raises: _upsert_batch logs and re-raises, and
\* upsert, which catches nothing, raises to its caller
BatchFail ==
    /\ Awaiting
    /\ upc' = "raised"
    /\ uerr' = "remote"
    /\ inflight' = <<>>
    /\ calls' = Settle(calls, "failed")
    /\ UNCHANGED <<ragVars, otherVars>>
    /\ UNCHANGED <<numpyStrict, store, uns, udata, ui, origin, qpc, qns, qremote, qout>>

(***************************************************************************)
(* query.                                                                  *)
(***************************************************************************)

\* the sequences of n distinct elements of S
RECURSIVE Arrangements(_, _)
Arrangements(S, n) ==
    IF n = 0 THEN {<<>>}
    ELSE UNION {{<<x>> \o t : t \in Arrangements(S \ {x}, n - 1)} : x \in S}

Min(a, b) == IF a <= b THEN a ELSE b

\* What index.query(vector, top_k, namespace, include_metadata=True,
\* include_values=True) can answer: the stored records of the namespace, at
\* most top_k of them, in the order of the service's scores.
IndexQuery(st, ns, top_k) ==
    LET ids == DOMAIN st[ns]
        n == Min(top_k, Cardinality(ids))
    IN  {[matches |-> [j \in 1..n |->
                        [id |-> order[j],
                         score |-> 100 - j,
                         values |-> st[ns][order[j]].values,
                         metadata |-> st[ns][order[j]].metadata]]]
         : order \in Arrangements(ids, n)}

\* Transform with the matches taken last first
TransformReversed(results) ==
    LET matches == Get(results, "matches", <<>>)
    IN  [j \in 1..Len(matches) |-> Decode(matches[Len(matches) + 1 - j])]

\* lines 174-186: one result record per match
Transform(results) ==
    LET matches == Get(results, "matches", <<>>)
    IN  [j \in 1..Len(matches) |-> Decode(matches[j])]

\* QueryErrorHandler re-raising, as _upsert_batch does
QueryErrorRaised == [pc |-> "raised", out |-> <<>>]

\* the except clause of query: print and return []
QueryErrorHandler == [pc |-> "returned", out |-> <<>>]

\* query(query, top_k) on the facade of namespace ns; the remote search
\* answers or raises
QueryCall(ns, query, top_k) ==
    /\ qns' = ns
    /\ \/ \E results \in IndexQuery(store, ns, top_k) :
            /\ qremote' = "answered"
            /\ qcall' = [vector |-> ToList(query), top_k |-> top_k, namespace |-> ns,
                         matches |-> results.matches]
            /\ qpc' = "returned"
            /\ qout' = Transform(results)
       \/ /\ qremote' = "raised"
          /\ qcall' = [vector |-> ToList(query), top_k |-> top_k, namespace |-> ns,
                       matches |-> <<>>]
          /\ qpc' = QueryErrorHandler.pc
          /\ qout' = QueryErrorHandler.out
    /\ UNCHANGED <<ragVars, apiVars, facadeVars, delVars>>
    /\ UNCHANGED <<numpyStrict, store, upc, uns, udata, ui, inflight, uerr, calls,
                   origin>>

(***************************************************************************)
(* main.py.  Text here is a sequence of characters.                        *)
(***************************************************************************)

Threads == {"loop", "w1", "w2"}

\* the threads of the pool that runs the background tasks
Workers == {"w1", "w2"}

\* required_vars
required_vars == {"OPENAI_API_KEY", "PINECONE_API_KEY", "PINECONE_INDEX_NAME"}

\* MissingVars with the test of the environment left out
MissingIgnored(env) == {}

\* missing = [var for var in required_vars if not os.getenv(var)]
MissingVars(env) == required_vars \ env

\* JSON values of a metadata mapping
PyText(s) == [t |-> "str", s |-> s]

PyItems(items) == [t |-> "list", items |-> items]

PyInt(n) == [t |-> "int", n |-> n]

PyNone == [t |-> "none"]

\* bool(v)
Truthy(v) ==
    CASE v.t = "str" -> v.s # <<>>
      [] v.t = "list" -> v.items # <<>>
      [] v.t = "int" -> v.n # 0
      [] OTHER -> FALSE

\* str(n) of an int n >= 0
RECURSIVE Decimal(_)
Decimal(n) ==
    IF n < 10 THEN <<ToString(n)>> ELSE Decimal(n \div 10) \o <<ToString(n % 10)>>

\* what an f-string puts for {v}, v a str, an int or None
Format(v) ==
    CASE v.t = "str" -> v.s
      [] v.t = "int" -> Decimal(v.n)
      [] OTHER -> <<"N", "o", "n", "e">>

\* sep.join(items) for items that are all str
RECURSIVE Join(_, _)
Join(sep, items) ==
    IF items = <<>> THEN <<>>
    ELSE IF Len(items) = 1 THEN items[1].s
    ELSE items[1].s \o sep \o Join(sep, Tail(items))

SummaryLabel == <<"S", "u", "m", "m", "a", "r", "y", ":", " ">>

KeywordsLabel == <<"K", "e", "y", "w", "o", "r", "d", "s", ":", " ">>

BlankLine == <<"\n", "\n">>

\* CommaSpace without the space
Comma == <<",">>

\* ", "
CommaSpace == <<",", " ">>

\* lines 206-216 of process_ingest: the enriched text, or the TypeError of
\* ", ".join(keywords) on a list that holds something else than str
Enrich(tx, md) ==
    LET summary == Get(md, "summary", PyNone)
        keywords == Get(md, "keywords", PyNone)
        prefix1 == IF Truthy(summary)
                   THEN SummaryLabel \o Format(summary) \o BlankLine
                   ELSE <<>>
        joinable == \A k \in 1..Len(keywords.items) : keywords.items[k].t = "str"
        shown == IF keywords.t = "list" THEN Join(CommaSpace, keywords.items)
                 ELSE Format(keywords)
        context_prefix == IF Truthy(keywords)
                          THEN prefix1 \o KeywordsLabel \o shown \o BlankLine
                          ELSE prefix1
    IN  IF Truthy(keywords) /\ keywords.t = "list" /\ ~joinable
        THEN [raised |-> TRUE, text |-> <<>>]
        ELSE [raised |-> FALSE,
              text |-> IF context_prefix # <<>> THEN context_prefix \o tx ELSE tx]

\* largest number of operations started in one run
MaxOps == 3

Idle(t) == pc[t] \in {"idle", "done"}

\* thread t enters get_rag_instance for operation o
Begin(t, o, tx, md) ==
    /\ Idle(t)
    /\ ops < MaxOps
    /\ ops' = ops + 1
    /\ op' = [op EXCEPT ![t] = o]
    /\ text' = [text EXCEPT ![t] = tx]
    /\ metadata' = [metadata EXCEPT ![t] = md]
    /\ pc' = [pc EXCEPT ![t] = "g_check"]
    /\ late' = [late EXCEPT ![t] = FALSE]
    /\ retried' = [retried EXCEPT ![t] = FALSE]
    /\ rag' = [rag EXCEPT ![t] = 0]
    /\ built' = [built EXCEPT ![t] = 0]
    /\ path' = [path EXCEPT ![t] = "none"]
    /\ inserted' = [inserted EXCEPT ![t] = <<>>]
    /\ outcome' = [outcome EXCEPT ![t] = "none"]
    /\ UNCHANGED <<LIGHTRAG_AVAILABLE, environ, rag_instance, handles, failed>>
    /\ UNCHANGED <<storeVars, facadeVars, delVars, qcall>>

\* a pool thread runs process_ingest(text, metadata)
StartIngest(t, tx, md) == Begin(t, "ingest", tx, md) /\ UNCHANGED apiVars

\* the event loop starts query_endpoint(req)
StartQuery(t, mode) == Begin(t, "query", <<"q">>, mode) /\ UNCHANGED apiVars

\* get_rag_instance returns v to thread t by the return statement named by
Return(t, v, by) ==
    /\ rag' = [rag EXCEPT ![t] = v]
    /\ path' = [path EXCEPT ![t] = by]
    /\ pc' = [pc EXCEPT ![t] = "got"]

\* line 90: if _rag_instance is not None
GetCheck(t) ==
    /\ pc[t] = "g_check"
    /\ pc' = [pc EXCEPT ![t] = IF rag_instance # 0 THEN "g_fast" ELSE "g_avail"]
    /\ late' = [late EXCEPT ![t] = rag_instance # 0]
    /\ retried' = [retried EXCEPT ![t] = failed]
    /\ UNCHANGED <<LIGHTRAG_AVAILABLE, environ, rag_instance, handles, ops, op, text,
                   metadata, built, rag, path, failed, inserted, outcome>>
    /\ UNCHANGED <<storeVars, otherVars>>

\* line 91: return _rag_instance
GetFast(t) ==
    /\ pc[t] = "g_fast"
    /\ Return(t, rag_instance, "memo")
    /\ UNCHANGED <<LIGHTRAG_AVAILABLE, environ, rag_instance, handles, ops, op, text,
                   metadata, built, late, retried, failed, inserted, outcome>>
    /\ UNCHANGED <<storeVars, otherVars>>

\* lines 93-95: if not LIGHTRAG_AVAILABLE: return None
GetAvail(t) ==
    /\ pc[t] = "g_avail"
    /\ IF LIGHTRAG_AVAILABLE
       THEN /\ pc' = [pc EXCEPT ![t] = "g_env"]
            /\ UNCHANGED <<rag, path>>
       ELSE Return(t, 0, "unavailable")
    /\ UNCHANGED <<LIGHTRAG_AVAILABLE, environ, rag_instance, handles, ops, op, text,
                   metadata, built, late, retried, failed, inserted, outcome>>
    /\ UNCHANGED <<storeVars, otherVars>>

\* lines 98-102: if missing: return None
GetEnv(t) ==
    /\ pc[t] = "g_env"
    /\ IF MissingVars(environ) # {}
       THEN /\ Return(t, 0, "missing")
            /\ failed' = TRUE
       ELSE /\ pc' = [pc EXCEPT ![t] = "g_ctor"]
            /\ UNCHANGED <<rag, path, failed>>
    /\ UNCHANGED <<LIGHTRAG_AVAILABLE, environ, rag_instance, handles, ops, op, text,
                   metadata, built, late, retried, inserted, outcome>>
    /\ UNCHANGED <<storeVars, otherVars>>

\* line 107, right-hand side: LightRAG(...) returns a new engine
CtorOk(t) ==
    /\ pc[t] = "g_ctor"
    /\ handles' = handles + 1
    /\ built' = [built EXCEPT ![t] = handles + 1]
    /\ pc' = [pc EXCEPT ![t] = "g_store"]
    /\ UNCHANGED <<LIGHTRAG_AVAILABLE, environ, rag_instance, ops, op, text,
                   metadata, rag, path, late, retried, failed, inserted, outcome>>
    /\ UNCHANGED <<storeVars, otherVars>>

\* line 107 raises, lines 128-132: except Exception: return None
CtorFail(t) ==
    /\ pc[t] = "g_ctor"
    /\ Return(t, 0, "failed")
    /\ failed' = TRUE
    /\ UNCHANGED <<LIGHTRAG_AVAILABLE, environ, rag_instance, handles, ops, op, text,
                   metadata, built, late, retried, inserted, outcome>>
    /\ UNCHANGED <<storeVars, otherVars>>

\* line 107, the assignment: _rag_instance = <the new engine>
GetStore(t) ==
    /\ pc[t] = "g_store"
    /\ rag_instance' = built[t]
    /\ pc' = [pc EXCEPT ![t] = "g_ret"]
    /\ UNCHANGED <<LIGHTRAG_AVAILABLE, environ, handles, ops, op, text,
                   metadata, built, rag, path, late, retried, failed, inserted, outcome>>
    /\ UNCHANGED <<storeVars, otherVars>>

\* line 126: return _rag_instance
GetRet(t) ==
    /\ pc[t] = "g_ret"
    /\ Return(t, rag_instance, "constructed")
    /\ UNCHANGED <<LIGHTRAG_AVAILABLE, environ, rag_instance, handles, ops, op, text,
                   metadata, built, late, retried, failed, inserted, outcome>>
    /\ UNCHANGED <<storeVars, otherVars>>

\* thread t ends its operation with outcome o
Finish(t, o) ==
    /\ pc' = [pc EXCEPT ![t] = "done"]
    /\ outcome' = [outcome EXCEPT ![t] = o]

\* lines 194-197: rag is None: log and return
IngestNoRag(t) ==
    /\ pc[t] = "got" /\ op[t] = "ingest" /\ rag[t] = 0
    /\ Finish(t, "unavailable")
    /\ UNCHANGED <<LIGHTRAG_AVAILABLE, environ, rag_instance, handles, ops, op, text,
                   metadata, built, rag, path, late, retried, failed, inserted>>
    /\ UNCHANGED <<storeVars, otherVars>>

\* lines 199-219: build the enriched text and call rag.insert on it; an
\* exception before the call goes to the except clause of line 225
IngestInsert(t) ==
    /\ pc[t] = "got" /\ op[t] = "ingest" /\ rag[t] # 0
    /\ LET e == Enrich(text[t], metadata[t])
       IN  IF e.raised
           THEN /\ Finish(t, "error")
                /\ UNCHANGED inserted
           ELSE /\ inserted' = [inserted EXCEPT
                                  ![t] = Append(@, [engine |-> rag[t], text |-> e.text])]
                /\ pc' = [pc EXCEPT ![t] = "inserting"]
                /\ UNCHANGED outcome
    /\ UNCHANGED <<LIGHTRAG_AVAILABLE, environ, rag_instance, handles, ops, op, text,
                   metadata, built, rag, path, late, retried, failed>>
    /\ UNCHANGED <<storeVars, otherVars>>

\* rag.insert returns: lines 221-223
InsertReturns(t) ==
    /\ pc[t] = "inserting"
    /\ Finish(t, "complete")
    /\ UNCHANGED <<LIGHTRAG_AVAILABLE, environ, rag_instance, handles, ops, op, text,
                   metadata, built, rag, path, late, retried, failed, inserted>>
    /\ UNCHANGED <<storeVars, otherVars>>

\* InsertRaises without the except clause: the exception leaves process_ingest
InsertRaisesUncaught(t) ==
    /\ pc[t] = "inserting"
    /\ Finish(t, "raised")
    /\ UNCHANGED <<LIGHTRAG_AVAILABLE, environ, rag_instance, handles, ops, op, text,
                   metadata, built, rag, path, late, retried, failed, inserted>>
    /\ UNCHANGED <<storeVars, otherVars>>

\* rag.insert raises: lines 225-228 log it and process_ingest returns
InsertRaises(t) ==
    /\ pc[t] = "inserting"
    /\ Finish(t, "error")
    /\ UNCHANGED <<LIGHTRAG_AVAILABLE, environ, rag_instance, handles, ops, op, text,
                   metadata, built, rag, path, late, retried, failed, inserted>>
    /\ UNCHANGED <<storeVars, otherVars>>

QueryModes == {"local", "global", "hybrid"}

\* lines 311-330 of query_endpoint: the response
QueryRespond(t) ==
    /\ pc[t] = "got" /\ op[t] = "query"
    /\ IF rag[t] = 0 THEN Finish(t, "503")
       ELSE IF metadata[t] \notin QueryModes THEN Finish(t, "400")
       ELSE \/ Finish(t, "200")
            \/ Finish(t, "500")
    /\ UNCHANGED <<LIGHTRAG_AVAILABLE, environ, rag_instance, handles, ops, op, text,
                   metadata, built, rag, path, late, retried, failed, inserted>>
    /\ UNCHANGED <<storeVars, otherVars>>

\* the characters str.strip() removes
Whitespace == {" ", "\n", "\t"}

RECURSIVE LStrip(_)
LStrip(tx) == IF tx # <<>> /\ tx[1] \in Whitespace THEN LStrip(Tail(tx)) ELSE tx

RECURSIVE RStrip(_)
RStrip(tx) ==
    IF tx # <<>> /\ tx[Len(tx)] \in Whitespace
    THEN RStrip(SubSeq(tx, 1, Len(tx) - 1))
    ELSE tx

\* tx.strip()
Strip(tx) == RStrip(LStrip(tx))

\* len(req.text.strip()) < 10
MinTextLen == 10

\* largest number of requests made to ingest_endpoint in one run
MaxRequests == 2

\* background task j has run to its end
Finished(j) ==
    /\ tasks[j].state = "started"
    /\ (task[tasks[j].thread] # j \/ pc[tasks[j].thread] = "done")

\* the status ingest_endpoint answers a request with: lines 273-291
IngestStatus(tx) ==
    IF ~LIGHTRAG_AVAILABLE THEN "503"
    ELSE IF tx = <<>> \/ Len(Strip(tx)) < MinTextLen THEN "400"
    ELSE "accepted"

\* IngestTasks with the task added before the request is validated
IngestTasksEager(status, req, tx, md) ==
    <<[req |-> req, text |-> tx, metadata |-> md, state |-> "pending", thread |-> "none"]>>

\* line 286: the tasks ingest_endpoint adds for request req
IngestTasks(status, req, tx, md) ==
    IF status = "accepted"
    THEN <<[req |-> req, text |-> tx, metadata |-> md, state |-> "pending",
            thread |-> "none"]>>
    ELSE <<>>

\* ingest_endpoint(req) on the event loop: it has no await, so it runs from
\* its first line to its response in one piece. The response is logged with
\* what held when it was given: whether the required variables were set, and
\* how many earlier tasks had not run to their end.
IngestEndpoint(tx, md) ==
    /\ Idle("loop")
    /\ Len(acks) < MaxRequests
    /\ LET status == IngestStatus(tx)
           req == Len(acks) + 1
       IN  /\ acks' = Append(acks,
                  [status |-> status, text |-> tx, metadata |-> md,
                   configured |-> MissingVars(environ) = {},
                   unfinished |-> Cardinality({j \in 1..Len(tasks) : ~Finished(j)})])
           /\ tasks' = tasks \o IngestTasks(status, req, tx, md)
    /\ UNCHANGED task
    /\ UNCHANGED <<storeVars, ragVars, facadeVars, delVars, qcall>>

\* a pool thread takes a background task that was added and starts
\* process_ingest on its arguments
TaskStart(t) ==
    \E j \in 1..Len(tasks) :
        /\ tasks[j].state = "pending"
        /\ Begin(t, "ingest", tasks[j].text, tasks[j].metadata)
        /\ tasks' = [tasks EXCEPT ![j].state = "started", ![j].thread = t]
        /\ task' = [task EXCEPT ![t] = j]
        /\ UNCHANGED acks

\* a required variable that was not set is set in the environment
EnvAppears(v) ==
    /\ v \in required_vars \ environ
    /\ environ' = environ \cup {v}
    /\ UNCHANGED <<LIGHTRAG_AVAILABLE, rag_instance, handles, ops, pc, op, text,
                   metadata, built, rag, path, late, retried, failed, inserted, outcome>>
    /\ UNCHANGED <<storeVars, otherVars>>

\* the state of main.py after import
InitRag ==
    /\ rag_instance = 0
    /\ handles = 0
    /\ ops = 0
    /\ failed = FALSE
    /\ pc = [t \in Threads |-> "idle"]
    /\ op = [t \in Threads |-> "none"]
    /\ text = [t \in Threads |-> <<>>]
    /\ metadata = [t \in Threads |-> EmptyDict]
    /\ built = [t \in Threads |-> 0]
    /\ rag = [t \in Threads |-> 0]
    /\ path = [t \in Threads |-> "none"]
    /\ late = [t \in Threads |-> FALSE]
    /\ retried = [t \in Threads |-> FALSE]
    /\ inserted = [t \in Threads |-> <<>>]
    /\ outcome = [t \in Threads |-> "none"]
    /\ acks = <<>>
    /\ tasks = <<>>
    /\ task = [t \in Threads |-> 0]

\* one step of get_rag_instance and its caller in thread t
Step(t) ==
    \/ GetCheck(t)
    \/ GetFast(t)
    \/ GetAvail(t)
    \/ GetEnv(t)
    \/ CtorOk(t)
    \/ CtorFail(t)
    \/ GetStore(t)
    \/ GetRet(t)
    \/ IngestNoRag(t)
    \/ IngestInsert(t)
    \/ InsertReturns(t)
    \/ InsertRaises(t)

(***************************************************************************)
(* pinecone_storage.py: the constructor and delete.                        *)
(***************************************************************************)

\* the value of an environment variable that is set to a non-empty value
EnvValue(name) == PyText(<<"s", "e", "t">>)

\* os.getenv(name, default)
Getenv(name, default) ==
    IF name \in environ THEN EnvValue(name)
    ELSE IF name \in blank THEN PyText(<<>>)
    ELSE default

\* "liquid-graph"
DefaultIndexName == PyText(<<"l", "i", "q", "u", "i", "d", "-", "g", "r", "a", "p", "h">>)

\* FacadeNamespace that leaves the keyword argument out
FacadeNamespaceIgnored(kwargs) == DefaultNamespace

\* line 69: self.namespace = kwargs.get("namespace", "default")
FacadeNamespace(kwargs) == Get(kwargs, "namespace", DefaultNamespace)

\* ApiKeyMissing with the test left out
ApiKeyUnchecked(api_key) == FALSE

\* line 78: not api_key
ApiKeyMissing(api_key) == ~Truthy(api_key)

\* largest number of constructor calls that open a client in one run
MaxFacades == 2

\* PineconeVectorDBStorage(global_config, **kwargs): lines 68-85. It raises
\* ValueError at line 79; else it opens a client (line 81) and asks it for
\* the index (line 82), which returns or raises.
FacadeInit(kwargs) ==
    /\ Len(opened) < MaxFacades
    /\ LET api_key == Getenv("PINECONE_API_KEY", PyNone)
           index_name == Getenv("PINECONE_INDEX_NAME", DefaultIndexName)
       IN  IF ApiKeyMissing(api_key)
           THEN /\ fpc' = "ValueError"
                /\ UNCHANGED <<facades, opened>>
           ELSE /\ opened' = Append(opened, [api_key |-> api_key, index_name |-> index_name])
                /\ \/ /\ fpc' = "constructed"
                      /\ facades' = Append(facades,
                             [namespace |-> FacadeNamespace(kwargs), kwargs |-> kwargs,
                              api_key |-> api_key, index_name |-> index_name,
                              max_batch_size |-> max_batch_size])
                   \/ /\ fpc' = "raised"
                      /\ UNCHANGED facades
    /\ UNCHANGED blank
    /\ UNCHANGED <<storeVars, ragVars, apiVars, delVars, qcall>>

\* index.delete(ids=ids, namespace=ns): the records of these ids leave the
\* namespace
IndexDelete(st, ns, ids) ==
    [st EXCEPT ![ns] =
        [id \in (DOMAIN st[ns]) \ {ids[j] : j \in 1..Len(ids)} |-> st[ns][id]]]

\* DeleteErrorHandler re-raising, as _upsert_batch does
DeleteErrorRaised == "raised"

\* the except clause of delete: print, and delete returns
DeleteErrorHandler == "returned"

\* delete(ids) on the facade of namespace ns, up to its await
DeleteCall(ns, ids) ==
    /\ dpc # "await"
    /\ dpc' = "await"
    /\ dns' = ns
    /\ dids' = ids
    /\ dremote' = "pending"
    /\ UNCHANGED <<storeVars, ragVars, apiVars, facadeVars, qcall>>

\* the executor's index.delete returns: lines 205
DeleteOk ==
    /\ dpc = "await"
    /\ store' = IndexDelete(store, dns, dids)
    /\ origin' = IndexDelete(origin, dns, dids)
    /\ dpc' = "returned"
    /\ dremote' = "deleted"
    /\ UNCHANGED <<dns, dids>>
    /\ UNCHANGED <<numpyStrict, upc, uns, udata, ui, inflight, uerr, calls,
                   qpc, qns, qremote, qout>>
    /\ UNCHANGED <<ragVars, apiVars, facadeVars, qcall>>

\* the executor's index.delete raises: lines 206-207
DeleteFail ==
    /\ dpc = "await"
    /\ dpc' = DeleteErrorHandler
    /\ dremote' = "raised"
    /\ UNCHANGED <<dns, dids>>
    /\ UNCHANGED <<storeVars, ragVars, apiVars, facadeVars, qcall>>

\* upsert, query and delete called on the f-th facade constructed
FacadeUpsert(f, data) ==
    /\ f \in 1..Len(facades)
    /\ ~Awaiting
    /\ UpsertEnter(facades[f].namespace, data)

FacadeQuery(f, query, top_k) ==
    /\ f \in 1..Len(facades)
    /\ QueryCall(facades[f].namespace, query, top_k)

FacadeDelete(f, ids) ==
    /\ f \in 1..Len(facades)
    /\ DeleteCall(facades[f].namespace, ids)

(***************************************************************************)
(* Inputs.                                                                 *)
(***************************************************************************)

\* largest mapping given to upsert in the batching runs
MaxRecords == 201

\* largest mapping given to upsert in the codec runs
MaxDocs == 2

\* largest top_k given to query
MaxTopK == 2

\* the key of the p-th item of a mapping
IdOf(p) == ToString(p)

Str_x == << <<"x", 1>> >>
Str_y == << <<"y", 1>> >>
Str_ab == << <<"a", 1>>, <<"b", 1>> >>

\* a payload of exactly the cap, one of cap + 1 and one well over it
AtCap == StrCat(Rep("a", ContentCap - 1), Rep("b", 1))
OverCap1 == StrCat(AtCap, Rep("c", 1))
OverCap == StrCat(Rep("a", ContentCap - 7), Rep("b", 30))

ListVec == PyList(<<1, 2>>)

\* a well-formed record: a list embedding, a short payload, attributes
BaseDoc == [vector |-> ListVec, content |-> Str_ab, meta |-> [source |-> Str_x]]

\* records whose embedding is empty, absent, or a numpy array
OddDocs ==
    {[vector |-> PyList(<<>>), content |-> Str_ab, meta |-> [source |-> Str_x]],
     [content |-> Str_ab],
     [vector |-> NdArray(<<>>), content |-> Str_ab],
     [vector |-> NdArray(<<0>>), content |-> Str_ab],
     [vector |-> NdArray(<<1>>), content |-> Str_ab],
     [vector |-> NdArray(<<1, 2>>), content |-> Str_ab]}

Sizes == {0, 1, 2, max_batch_size, max_batch_size + 1, 2 * max_batch_size, MaxRecords}

OddPlaces ==
    {{}} \cup {{p} : p \in {1, 2, max_batch_size, max_batch_size + 1, MaxRecords}}
         \cup {{1, 2}, {1, MaxRecords}, {max_batch_size, max_batch_size + 1}}

\* mappings of n records, well-formed but for an odd record at the first of
\* the places and another at the other places
BatchInputs ==
    {[p \in 1..n |->
        <<IdOf(p),
          IF p \notin places THEN BaseDoc
          ELSE IF \A q \in places : p <= q THEN odd1 ELSE odd2>>]
     : n \in Sizes, places \in OddPlaces, odd1 \in OddDocs, odd2 \in OddDocs}

Payloads == {Str_ab, AtCap, OverCap1, OverCap}

\* attributes that use the key of the payload themselves
Colliding == [x \in {"source", ContentKey} |-> IF x = "source" THEN Str_x ELSE Str_y]

\* records of every payload, with and without attributes, with attributes
\* that use the key of the payload, without payload, with an empty embedding
CodecDocs ==
    {[vector |-> ListVec, content |-> c, meta |-> [source |-> Str_x]] : c \in Payloads}
    \cup {[vector |-> ListVec, content |-> Str_ab, meta |-> Colliding],
          [vector |-> ListVec, content |-> AtCap],
          [vector |-> ListVec, meta |-> EmptyDict],
          [vector |-> PyList(<<>>), content |-> Str_ab]}

CodecInputs ==
    UNION {{[p \in 1..n |-> <<IdOf(p), docs[p]>>] : docs \in [1..n -> CodecDocs]}
           : n \in 0..MaxDocs}

Queries == {PyList(<<1, 2>>), NdArray(<<1, 2>>)}

(***************************************************************************)
(* Specifications.                                                         *)
(***************************************************************************)

InitStore ==
    /\ numpyStrict \in BOOLEAN
    /\ store = [ns \in Partitions |-> EmptyDict]
    /\ upc = "idle"
    /\ uns = NAMESPACE_CHUNKS
    /\ udata = <<>>
    /\ ui = 1
    /\ inflight = <<>>
    /\ uerr = "none"
    /\ calls = <<>>
    /\ origin = [ns \in Partitions |-> EmptyDict]
    /\ qpc = "none"
    /\ qns = NAMESPACE_CHUNKS
    /\ qremote = "none"
    /\ qout = <<>>
    /\ qcall = [vector |-> <<>>, top_k |-> 0, namespace |-> NAMESPACE_CHUNKS,
                matches |-> <<>>]
    /\ dpc = "none"
    /\ dns = NAMESPACE_CHUNKS
    /\ dids = <<>>
    /\ dremote = "none"
    /\ facades = <<>>
    /\ opened = <<>>
    /\ fpc = "none"

\* the storage runs: main.py imported with everything available, at rest
InitBatch ==
    /\ InitStore
    /\ InitRag
    /\ LIGHTRAG_AVAILABLE = TRUE
    /\ environ = required_vars
    /\ blank = {}

NextBatch ==
    \/ \E data \in BatchInputs : UpsertCall(NAMESPACE_CHUNKS, data)
    \/ BatchOk
    \/ BatchFail

\* upsert over mappings of up to MaxRecords records
SpecBatch == InitBatch /\ [][NextBatch]_vars

InitCodec == InitBatch

NextCodec ==
    \/ \E data \in CodecInputs : UpsertCall(NAMESPACE_CHUNKS, data)
    \/ BatchOk
    \/ BatchFail
    \/ \E ns \in {NAMESPACE_CHUNKS, NAMESPACE_ENTITIES}, query \in Queries,
          top_k \in 1..MaxTopK : QueryCall(ns, query, top_k)

\* upsert of a few records of every shape, then queries
SpecCodec == InitCodec /\ [][NextCodec]_vars

Body == <<"b", "o", "d", "y">>

Word_a == PyText(<<"a">>)
Word_b == PyText(<<"b">>)

\* metadata.summary: a text, the empty text, None, a number
Summaries == {PyText(<<"S">>), PyText(<<>>), PyNone, PyInt(7)}

\* metadata.keywords: a text, the empty text, lists of texts, a list that
\* holds a number
KeywordValues ==
    {PyText(<<"k">>), PyText(<<>>), PyItems(<<>>), PyItems(<<Word_a>>),
     PyItems(<<Word_a, Word_b>>), PyItems(<<Word_a, PyInt(7)>>)}

Source == [source |-> PyText(<<"n", "8", "n">>)]

\* metadata mappings with and without summary and keywords
Metadatas ==
    {EmptyDict, Source}
    \cup {[summary |-> v] : v \in Summaries}
    \cup {[keywords |-> k] : k \in KeywordValues}
    \cup {[summary |-> v, keywords |-> k] : v \in Summaries, k \in KeywordValues}

InitServing ==
    /\ InitStore
    /\ InitRag
    /\ LIGHTRAG_AVAILABLE \in BOOLEAN
    /\ environ \in {required_vars} \cup {required_vars \ {v} : v \in required_vars}
    /\ blank = {}

NextServing ==
    \/ \E t \in Workers : StartIngest(t, Body, Source)
    \/ \E mode \in {"hybrid", "fast"} : StartQuery("loop", mode)
    \/ \E t \in Threads : Step(t)
    \/ QueryRespond("loop")
    \/ \E v \in required_vars : EnvAppears(v)

\* the serving process: query_endpoint on the event loop and process_ingest
\* on two pool threads, interleaved statement by statement
SpecServing == InitServing /\ [][NextServing]_vars

NextIngest ==
    \/ \E tx \in {Body, <<>>}, md \in Metadatas : StartIngest("w1", tx, md)
    \/ Step("w1")

\* process_ingest on one thread, over texts and metadata of every shape
SpecIngest == InitCodec /\ [][NextIngest]_vars

\* the environment: each of the two variables of the constructor set, set to
\* "" or not set
InitConstruct ==
    /\ InitStore
    /\ InitRag
    /\ LIGHTRAG_AVAILABLE = TRUE
    /\ environ \in SUBSET {"PINECONE_API_KEY", "PINECONE_INDEX_NAME"}
    /\ blank \in SUBSET ({"PINECONE_API_KEY", "PINECONE_INDEX_NAME"} \ environ)

\* the keyword arguments of the constructor: a namespace of main.py, or none
KwargsInputs == {[namespace |-> ns] : ns \in Namespaces} \cup {EmptyDict}

NextConstruct == \E kwargs \in KwargsInputs : FacadeInit(kwargs)

\* the constructor, under every environment
SpecConstruct == InitConstruct /\ [][NextConstruct]_vars

DocA == BaseDoc
DocB == [vector |-> PyList(<<3>>), content |-> Str_x]

\* mappings of one record each, of an id that meets across partitions
PartitionInputs == {<< <<"1", DocA>> >>, << <<"1", DocB>> >>}

DeleteInputs == {<<"1">>, <<"1", "2">>}

PartitionKwargs == {[namespace |-> NAMESPACE_ENTITIES], [namespace |-> NAMESPACE_CHUNKS]}

InitPartition == InitBatch /\ numpyStrict = FALSE

NextPartition ==
    \/ \E kwargs \in PartitionKwargs : FacadeInit(kwargs)
    \/ \E f \in 1..MaxFacades, data \in PartitionInputs : FacadeUpsert(f, data)
    \/ BatchOk
    \/ BatchFail
    \/ \E f \in 1..MaxFacades : FacadeQuery(f, ListVec, 1)
    \/ \E f \in 1..MaxFacades, ids \in DeleteInputs : FacadeDelete(f, ids)
    \/ DeleteOk
    \/ DeleteFail

\* facades of several namespaces on one remote index: upserts, queries and
\* deletes through them, in any order
SpecPartition == InitPartition /\ [][NextPartition]_vars

\* texts of ten characters and more, of fewer, and of fewer once stripped
LongText == <<"t", "e", "n", " ", "l", "e", "t", "t", "e", "r", "s">>
PaddedText == <<" ", " ", "p", "a", "d", "d", "e", "d", " ", "\n">>
RequestTexts == {LongText, PaddedText, <<>>}

InitApi ==
    /\ InitStore
    /\ InitRag
    /\ LIGHTRAG_AVAILABLE \in BOOLEAN
    /\ environ \in {required_vars, required_vars \ {"PINECONE_API_KEY"}}
    /\ blank = {}

NextApi ==
    \/ \E tx \in RequestTexts : IngestEndpoint(tx, Source)
    \/ TaskStart("w1")
    \/ StartQuery("loop", "hybrid")
    \/ \E t \in {"loop", "w1"} : Step(t)
    \/ QueryRespond("loop")

\* the service: ingest_endpoint and query_endpoint on the event loop, the
\* background tasks one after the other on a pool thread
SpecApi == InitApi /\ [][NextApi]_vars

(***************************************************************************)
(* Batch Upsert Pipeline: the claims.                                      *)
(***************************************************************************)

\* the embedding of a record, and whether it has at least one value
EmbeddingOf(doc) == Get(doc, "vector", PyList(<<>>))

NonEmpty(doc) == Len(EmbeddingOf(doc).vals) > 0

\* the places of the records of the mapping with a non-empty embedding
ValidPlaces == {p \in 1..Len(udata) : NonEmpty(udata[p][2])}

CeilDiv(a, b) == (a + b - 1) \div b

\* the upsert call has ended and no remote commit of it failed
EndedAllCommitted ==
    /\ upc \in {"done", "raised"}
    /\ \A j \in 1..Len(calls) : calls[j].status = "ok"

CommittedIds == UNION {{calls[j].ids[k] : k \in 1..Len(calls[j].ids)} : j \in 1..Len(calls)}

\* C1: when every remote commit succeeds, upsert issues exactly
\* ceil(v / batch_size) commit calls, v the number of records with a non-empty
\* embedding, each of 1..batch_size records, and the ids committed are the
\* ids of those records.
C1_BatchCount ==
    EndedAllCommitted =>
        /\ Len(calls) = CeilDiv(Cardinality(ValidPlaces), max_batch_size)
        /\ \A j \in 1..Len(calls) :
              Len(calls[j].ids) >= 1 /\ Len(calls[j].ids) <= max_batch_size
        /\ CommittedIds = {udata[p][1] : p \in ValidPlaces}

\* every embedding of the mapping is a Python list
AllLists == \A p \in 1..Len(udata) : EmbeddingOf(udata[p][2]).kind = "list"

\* C1 for mappings whose embeddings are all Python lists: the count, the
\* sizes and the ids of C1 hold.
C1_BatchCountOfLists == AllLists => C1_BatchCount

\* the ids of the batches whose remote commit succeeded
IdsOfOkCalls ==
    UNION {{calls[j].ids[k] : k \in 1..Len(calls[j].ids)}
           : j \in {c \in 1..Len(calls) : calls[c].status = "ok"}}

\* C2: when the remote commit of a batch fails, upsert raises that failure
\* to its caller, the batches committed before it are still in the remote
\* partition, and the failed batch is the last one attempted: nothing of it
\* or after it is in the partition.
C2_FailurePropagates ==
    \A k \in 1..Len(calls) :
        calls[k].status = "failed" =>
            /\ upc = "raised"
            /\ uerr = "remote"
            /\ k = Len(calls)
            /\ \A j \in 1..(k - 1) :
                  /\ calls[j].status = "ok"
                  /\ \A m \in 1..Len(calls[j].ids) :
                        /\ calls[j].ids[m] \in DOMAIN store[uns]
                        /\ store[uns][calls[j].ids[m]].metadata
                             = Encode(DocOf(udata, calls[j].ids[m]))
            /\ DOMAIN store[uns] = IdsOfOkCalls

\* C2's case: the third batch failed after two were committed
C2_Witness ==
    /\ Len(calls) = 3
    /\ calls[3].status = "failed"
    /\ Cardinality(DOMAIN store[uns]) = 2 * max_batch_size

\* the records of the mapping with an empty embedding
EmptyPlaces == {p \in 1..Len(udata) : ~NonEmpty(udata[p][2])}

\* C9: a record with an empty embedding is dropped silently wherever it
\* stands: it is in no commit call, upsert raises nothing, and when no remote
\* commit fails every record with a non-empty embedding is committed.
C9_EmptyDropped ==
    (EmptyPlaces # {} /\ EndedAllCommitted) =>
        /\ uerr = "none"
        /\ \A p \in EmptyPlaces : udata[p][1] \notin CommittedIds
        /\ \A p \in ValidPlaces : udata[p][1] \in DOMAIN store[uns]

\* C9 for mappings whose embeddings are all Python lists.
C9_EmptyDroppedOfLists == AllLists => C9_EmptyDropped

(***************************************************************************)
(* Similarity Query Adapter and Content-Metadata Codec: the claims.        *)
(***************************************************************************)

\* C3: a query whose remote search raises returns the empty sequence to its
\* caller and does not raise.
C3_QueryDegrades == qremote = "raised" => (qpc = "returned" /\ qout = <<>>)

\* C3's case: the remote search raised on a partition that holds records
C3_Witness == qremote = "raised" /\ DOMAIN store[qns] # {}

\* the payload and the attributes the caller gave for the record of a result
PayloadOf(r) == Get(origin[qns][r.id], "content", <<>>)

AttributesOf(r) == Get(origin[qns][r.id], "meta", EmptyDict)

\* the result records of the last query, when its remote search answered
Results == IF qremote = "answered" THEN {qout[j] : j \in 1..Len(qout)} ELSE {}

\* C7: for a payload of at most the cap and any attributes, the payload and
\* the attributes query recovers are the ones upsert was given.
C7_RoundTrip ==
    \A r \in Results :
        StrLen(PayloadOf(r)) <= ContentCap =>
            (r.content = PayloadOf(r) /\ r.meta = AttributesOf(r))

\* C7 for attributes that do not use the key "__content__".
C7_RoundTripUnreserved ==
    \A r \in Results :
        (StrLen(PayloadOf(r)) <= ContentCap /\ ContentKey \notin DOMAIN AttributesOf(r)) =>
            (r.content = PayloadOf(r) /\ r.meta = AttributesOf(r))

\* C8: a payload over the cap comes back as its first cap characters followed
\* by the truncation marker, of length cap + length of the marker; a payload
\* of exactly the cap comes back unchanged.
C8_Truncation ==
    \A r \in Results :
        /\ StrLen(PayloadOf(r)) > ContentCap =>
              /\ StrLen(r.content) = ContentCap + StrLen(TruncationMarker)
              /\ StrStartsWith(r.content, StrTake(PayloadOf(r), ContentCap))
              /\ StrEndsWith(r.content, TruncationMarker)
        /\ StrLen(PayloadOf(r)) = ContentCap => r.content = PayloadOf(r)

\* C8's case: one query returned a record whose payload was over the cap and
\* one whose payload was exactly the cap
C8_Witness ==
    /\ \E r \in Results : StrLen(PayloadOf(r)) > ContentCap + 1
    /\ \E r \in Results : StrLen(PayloadOf(r)) = ContentCap

(***************************************************************************)
(* Engine Lifecycle Manager: the claims.                                   *)
(***************************************************************************)

\* thread t has the answer of its call of get_rag_instance
Answered(t) == path[t] # "none"

\* C4: concurrent first-time invocations whose construction succeeds get a
\* handle, and every invocation that finds the manager READY returns the
\* first engine constructed, engine 1.
C4_Memoized ==
    \A t \in Threads :
        /\ path[t] = "constructed" => rag[t] # 0
        /\ (Answered(t) /\ late[t]) => rag[t] = 1

\* C5: once _rag_instance holds a handle it holds that handle in every later
\* state, and no invocation that finds it set constructs an engine.
C5_ReadyTerminal ==
    /\ [][rag_instance # 0 => rag_instance' = rag_instance]_vars
    /\ [](\A t \in Threads : late[t] => pc[t] \notin {"g_ctor", "g_store", "g_ret"})

\* C6: a failed construction attempt (a required variable missing, or the
\* constructor raising) returns no handle and leaves _rag_instance as it was,
\* None as long as no construction has succeeded; an invocation that finds
\* _rag_instance None attempts construction again, and when the variables are
\* set and the constructor returns, it returns the handle and the manager is
\* READY.
C6_FailureRetries ==
    /\ [](\A t \in Threads :
            /\ path[t] \in {"missing", "failed"} => rag[t] = 0
            /\ path[t] = "memo" => late[t]
            /\ path[t] = "constructed" =>
                  (rag[t] # 0 /\ rag_instance # 0 /\ required_vars \subseteq environ)
            /\ pc[t] \in {"g_ctor", "g_store"} => required_vars \subseteq environ)
    /\ [](handles = 0 => rag_instance = 0)
    /\ [][\A t \in Threads :
            (path[t] = "none" /\ path'[t] \in {"missing", "failed"})
                => rag_instance' = rag_instance]_vars

\* C6's case: an invocation that came after a failed attempt constructed the
\* first engine and returned it
C6_Witness ==
    \E t \in Threads :
        /\ retried[t]
        /\ path[t] = "constructed"
        /\ handles = 1
        /\ rag[t] = 1

(***************************************************************************)
(* Ingestion Orchestrator: the claims.                                     *)
(***************************************************************************)

\* thread t ran process_ingest with an engine, up to the call of rag.insert
\* or the except clause
Ingested(t) == op[t] = "ingest" /\ rag[t] # 0 /\ pc[t] \in {"inserting", "done"}

Has(md, k) == k \in DOMAIN md

\* the keywords as the line shows them: a list joined with ", "
RECURSIVE Listed(_)
Listed(items) ==
    IF items = <<>> THEN <<>>
    ELSE IF Len(items) = 1 THEN items[1].s
    ELSE items[1].s \o <<",", " ">> \o Listed(Tail(items))

Shown(v) == IF v.t = "list" THEN Listed(v.items) ELSE Format(v)

SummaryLine(v) ==
    <<"S", "u", "m", "m", "a", "r", "y", ":", " ">> \o Shown(v) \o <<"\n", "\n">>

KeywordsLine(v) ==
    <<"K", "e", "y", "w", "o", "r", "d", "s", ":", " ">> \o Shown(v) \o <<"\n", "\n">>

\* C10 as stated: with an engine, process_ingest calls rag.insert exactly
\* once, on the text prefixed by the Summary line if metadata has a summary
\* and by the Keywords line if metadata has keywords.
C10_PrefixWhenPresent ==
    \A t \in Threads :
        Ingested(t) =>
            /\ Len(inserted[t]) = 1
            /\ inserted[t][1].text =
                  (IF Has(metadata[t], "summary")
                   THEN SummaryLine(metadata[t].summary) ELSE <<>>)
                  \o (IF Has(metadata[t], "keywords")
                      THEN KeywordsLine(metadata[t].keywords) ELSE <<>>)
                  \o text[t]

\* keywords is a non-empty list that holds something else than a str
Unjoinable(md) ==
    /\ Has(md, "keywords")
    /\ md.keywords.t = "list"
    /\ \E k \in 1..Len(md.keywords.items) : md.keywords.items[k].t # "str"

\* C10 amended: the lines are added for a summary and for keywords that are
\* present and truthy (not None, not empty); and when keywords is a list
\* that holds a non-string, rag.insert is not called.
C10_PrefixWhenTruthy ==
    \A t \in Threads :
        Ingested(t) =>
            IF Unjoinable(metadata[t])
            THEN inserted[t] = <<>> /\ outcome[t] = "error"
            ELSE /\ Len(inserted[t]) = 1
                 /\ inserted[t][1].engine = rag[t]
                 /\ inserted[t][1].text =
                       (IF Has(metadata[t], "summary") /\ Truthy(metadata[t].summary)
                        THEN SummaryLine(metadata[t].summary) ELSE <<>>)
                       \o (IF Has(metadata[t], "keywords") /\ Truthy(metadata[t].keywords)
                           THEN KeywordsLine(metadata[t].keywords) ELSE <<>>)
                       \o text[t]

\* C10's case: ingest("body", {summary: "S", keywords: ["a", "b"]}) called
\* rag.insert on "Summary: S\n\nKeywords: a, b\n\nbody"
C10_Witness ==
    /\ text["w1"] = <<"b", "o", "d", "y">>
    /\ metadata["w1"] = [summary |-> PyText(<<"S">>),
                         keywords |-> PyItems(<<PyText(<<"a">>), PyText(<<"b">>)>>)]
    /\ Len(inserted["w1"]) = 1
    /\ inserted["w1"][1].text =
          <<"S", "u", "m", "m", "a", "r", "y", ":", " ", "S", "\n", "\n",
            "K", "e", "y", "w", "o", "r", "d", "s", ":", " ", "a", ",", " ", "b",
            "\n", "\n", "b", "o", "d", "y">>

\* C11: no failure leaves process_ingest. Without an engine it returns
\* without calling rag.insert; when the metadata handling raises or when
\* rag.insert raises (whatever it raises, a failed upsert batch included) the
\* except clause ends it; it never ends by an exception, and a call under way
\* always has a next step.
C11_NoPropagation ==
    \A t \in Threads :
        op[t] = "ingest" =>
            /\ outcome[t] # "raised"
            /\ pc[t] = "done" =>
                  /\ outcome[t] \in {"unavailable", "complete", "error"}
                  /\ rag[t] = 0 => (outcome[t] = "unavailable" /\ inserted[t] = <<>>)
                  /\ (rag[t] # 0 /\ Unjoinable(metadata[t]) /\ Truthy(metadata[t].keywords))
                        => (outcome[t] = "error" /\ inserted[t] = <<>>)
            /\ pc[t] \notin {"idle", "done"} => ENABLED Step(t)

\* C11's case: rag.insert was called and raised, and process_ingest returned
C11_Witness ==
    /\ op["w1"] = "ingest"
    /\ pc["w1"] = "done"
    /\ Len(inserted["w1"]) = 1
    /\ outcome["w1"] = "error"

(***************************************************************************)
(* The entry points: the claims.                                           *)
(***************************************************************************)

\* the background tasks added for request k
TasksOf(k) == {j \in 1..Len(tasks) : tasks[j].req = k}

\* C12: every accepted request has exactly one background task, with the
\* request's text and metadata, and a rejected one has none; the response of
\* a request is given before its task starts, so before its rag.insert ends;
\* and ingest_endpoint accepts a request whenever the event loop is free,
\* however many earlier tasks have not run to their end.
C12_AckBeforeInsert ==
    /\ \A k \in 1..Len(acks) :
          Cardinality(TasksOf(k)) = IF acks[k].status = "accepted" THEN 1 ELSE 0
    /\ \A j \in 1..Len(tasks) :
          /\ tasks[j].req \in 1..Len(acks)
          /\ acks[tasks[j].req].status = "accepted"
          /\ tasks[j].text = acks[tasks[j].req].text
          /\ tasks[j].metadata = acks[tasks[j].req].metadata
    /\ \A t \in Threads :
          task[t] # 0 =>
              /\ tasks[task[t]].state = "started"
              /\ text[t] = acks[tasks[task[t]].req].text
    /\ (Idle("loop") /\ Len(acks) < MaxRequests /\ LIGHTRAG_AVAILABLE)
          => ENABLED (IngestEndpoint(LongText, Source) /\ acks'[Len(acks')].status = "accepted")

\* C12's case: a second request was accepted while the task of the first had
\* not ended, and rag.insert of the first is still running
C12_Witness ==
    /\ Len(acks) = 2
    /\ acks[1].status = "accepted"
    /\ acks[2].status = "accepted"
    /\ acks[2].unfinished = 1
    /\ task["w1"] = 1
    /\ pc["w1"] = "inserting"

\* C13: when a required variable is missing, ingest_endpoint does not
\* accept the request (it answers 503, or 400 for a request it rejects), a
\* query whose get_rag_instance found the variable missing is answered 503,
\* and no operation ends by an exception.
C13_ConfigError503 ==
    /\ \A k \in 1..Len(acks) : ~acks[k].configured => acks[k].status # "accepted"
    /\ \A t \in Threads :
          /\ (op[t] = "query" /\ pc[t] = "done" /\ path[t] = "missing")
                => outcome[t] = "503"
          /\ outcome[t] # "raised"

\* C13 for query_endpoint alone
C13_QueryConfigError503 ==
    \A t \in Threads :
        /\ (op[t] = "query" /\ pc[t] = "done" /\ path[t] = "missing") => outcome[t] = "503"
        /\ outcome[t] # "raised"

(***************************************************************************)
(* Storage Backend Facade and Deletion Adapter: the claims.                *)
(***************************************************************************)

\* the variable has no value: it is not set, or set to ""
Absent(name) == name \notin environ

\* C14 as stated: when the API key or the index identifier is absent the
\* constructor raises its configuration error and opens no client, and a
\* facade that was constructed has both non-empty.
C14_FailFast ==
    /\ (fpc # "none" /\ (Absent("PINECONE_API_KEY") \/ Absent("PINECONE_INDEX_NAME")))
          => (fpc = "ValueError" /\ opened = <<>> /\ facades = <<>>)
    /\ \A f \in 1..Len(facades) :
          Truthy(facades[f].api_key) /\ Truthy(facades[f].index_name)

\* C14 amended: when the API key is absent the constructor raises its
\* configuration error and opens no client; an index identifier that is not
\* set is replaced by "liquid-graph" and one set to "" is passed on; a
\* facade that was constructed has a non-empty API key and that index name.
C14_FailFastOnKey ==
    /\ (fpc # "none" /\ Absent("PINECONE_API_KEY"))
          => (fpc = "ValueError" /\ opened = <<>> /\ facades = <<>>)
    /\ (fpc # "none" /\ ~Absent("PINECONE_API_KEY")) => fpc # "ValueError"
    /\ Len(facades) <= Len(opened)
    /\ \A f \in 1..Len(facades) :
          /\ Truthy(facades[f].api_key)
          /\ facades[f].index_name =
                IF "PINECONE_INDEX_NAME" \in environ THEN EnvValue("PINECONE_INDEX_NAME")
                ELSE IF "PINECONE_INDEX_NAME" \in blank THEN PyText(<<>>)
                ELSE PyText(<<"l", "i", "q", "u", "i", "d", "-", "g", "r", "a", "p", "h">>)

\* C14's cases: a facade was constructed without PINECONE_INDEX_NAME set
C14_Witness ==
    /\ facades # <<>>
    /\ "PINECONE_INDEX_NAME" \notin environ \cup blank
    /\ facades[1].index_name # PyText(<<>>)

\* C15: a delete whose remote deletion raises returns to its caller, for
\* every list of ids, and leaves the remote index as it was.
C15_DeleteSwallows ==
    /\ [](dremote = "raised" => dpc = "returned")
    /\ [](dpc # "raised")
    /\ [][(dpc = "await" /\ dremote' = "raised") => store' = store]_vars

\* C15's case: the remote deletion of a stored record raised
C15_Witness ==
    /\ dremote = "raised"
    /\ dpc = "returned"
    /\ \E j \in 1..Len(dids) : dids[j] \in DOMAIN store[dns]

\* C16: a facade's namespace is the one its constructor was given and never
\* changes; every remote upsert, query and delete carries the namespace of
\* a facade that was constructed; and a step changes the remote index in no
\* namespace but the one of the facade whose upsert or delete is under way.
C16_PartitionIsolation ==
    /\ [](\A f \in 1..Len(facades) :
            facades[f].namespace = Get(facades[f].kwargs, "namespace", "default"))
    /\ [][\A f \in 1..Len(facades) :
            f \in 1..Len(facades') /\ facades'[f] = facades[f]]_vars
    /\ [](/\ \A j \in 1..Len(calls) : calls[j].namespace = uns
          /\ upc # "idle" => \E f \in 1..Len(facades) : facades[f].namespace = uns
          /\ qpc # "none" =>
                (qcall.namespace = qns /\ \E f \in 1..Len(facades) : facades[f].namespace = qns)
          /\ dpc # "none" => \E f \in 1..Len(facades) : facades[f].namespace = dns)
    /\ [][\A ns \in Partitions :
            store'[ns] # store[ns] =>
                \/ Awaiting /\ ns = uns
                \/ dpc = "await" /\ ns = dns]_vars

\* C16's case: id "1" was stored through the facades of two namespaces, with
\* different records, and then deleted through one of them: the other
\* namespace still holds its record
C16_Witness ==
    /\ Len(facades) = 2
    /\ facades[1].namespace # facades[2].namespace
    /\ dremote = "deleted"
    /\ dns = facades[2].namespace
    /\ "1" \notin DOMAIN store[facades[2].namespace]
    /\ "1" \in DOMAIN store[facades[1].namespace]
    /\ store[facades[1].namespace]["1"].values = <<3>>
    /\ upc = "done"
    /\ uns = facades[2].namespace
    /\ udata[1][2].vector.vals = <<1, 2>>

(***************************************************************************)
(* Query order, the reserved key, the order of commits, numeric arrays:    *)
(* the claims.                                                             *)
(***************************************************************************)

\* C17: when the remote search answers, query returns one result record per
\* match of the answer, in the order of the answer, each with the id and
\* the score of its match.
C17_OrderPreserved ==
    qremote = "answered" =>
        /\ Len(qout) = Len(qcall.matches)
        /\ \A j \in 1..Len(qout) :
              /\ qout[j].id = qcall.matches[j].id
              /\ qout[j].score = qcall.matches[j].score

\* C17's case: the remote search answered two matches, id "2" before id "1"
C17_Witness ==
    /\ qremote = "answered"
    /\ Len(qout) = 2
    /\ qcall.matches[1].id = "2"
    /\ qcall.matches[2].id = "1"
    /\ qcall.matches[1].score > qcall.matches[2].score

\* C18: whatever keys the caller's attributes have, query returns every one
\* of them with the caller's value, and the payload (when within the cap) is
\* the caller's payload.
C18_NoCollision ==
    \A r \in Results :
        /\ \A k \in DOMAIN AttributesOf(r) :
              k \in DOMAIN r.meta /\ r.meta[k] = AttributesOf(r)[k]
        /\ StrLen(PayloadOf(r)) <= ContentCap => r.content = PayloadOf(r)

\* the place in the mapping of the record of this id
PlaceOf(id) == CHOOSE p \in 1..Len(udata) : udata[p][1] = id

\* C19: within one upsert call a commit call is issued only when the one
\* before it has ended, the ids are sent in the order of the mapping, and no
\* id is sent twice.
C19_Sequential ==
    /\ \A j \in 1..(Len(calls) - 1) : calls[j].status # "pending"
    /\ \A j \in 1..Len(calls) :
          /\ \A k \in 1..Len(calls[j].ids) :
                \E p \in 1..Len(udata) : udata[p][1] = calls[j].ids[k]
          /\ \A k \in 1..(Len(calls[j].ids) - 1) :
                PlaceOf(calls[j].ids[k]) < PlaceOf(calls[j].ids[k + 1])
          /\ (j > 1 /\ calls[j].ids # <<>> /\ calls[j - 1].ids # <<>>) =>
                PlaceOf(calls[j - 1].ids[Len(calls[j - 1].ids)]) < PlaceOf(calls[j].ids[1])

\* C19's case: three commit calls, the third under way after two that ended
C19_Witness ==
    /\ Len(calls) = 3
    /\ calls[1].status = "ok"
    /\ calls[2].status = "ok"
    /\ calls[3].status = "pending"
    /\ Len(calls[1].ids) = max_batch_size

\* C20: the emptiness test of upsert never raises, and when no remote commit
\* fails every record with a non-empty embedding, a list or a numeric array
\* of any length, is in the remote partition with its values as a list.
C20_ArrayAccepted ==
    /\ uerr # "ValueError"
    /\ EndedAllCommitted =>
          \A p \in ValidPlaces :
              /\ udata[p][1] \in DOMAIN store[uns]
              /\ store[uns][udata[p][1]].values = EmbeddingOf(udata[p][2]).vals

\* C20 for mappings whose embeddings are all Python lists.
C20_ListAccepted == AllLists => C20_ArrayAccepted

====
